---- MODULE Spec2Model ----
(***************************************************************************)
(* Model of scripts/generate_publications.py: the category index builder   *)
(* (parse_bib_entries_sty), the bibliography parser (parse_bibtex, both    *)
(* the bibtexparser branch and the fallback branch), the citation          *)
(* formatter (format_authors, format_publication) and the page assembler   *)
(* (generate_publications_page).                                           *)
(*                                                                         *)
(* A Python str is a sequence of atoms: an atom is one character or an     *)
(* opaque run of characters that holds no separator, brace or blank.       *)
(* A Python dict is a sequence of items in insertion order.                *)
(***************************************************************************)
EXTENDS Integers, Sequences, FiniteSets, TLC

VARIABLES pc, HAS_BIBTEXPARSER, categories, bib, entries, lines, origin,
          authors_in, authors_str, authors_out, pub, citation

vars == <<pc, HAS_BIBTEXPARSER, categories, bib, entries, lines, origin,
          authors_in, authors_str, authors_out, pub, citation>>

pageVars == <<HAS_BIBTEXPARSER, categories, bib, entries, lines, origin>>
authorVars == <<authors_in, authors_str, authors_out>>
pubVars == <<pub, citation>>

(***************************************************************************)
(* Bounds of the model.                                                    *)
(***************************************************************************)
MaxCategories == 2
MaxRecords == 2
MaxAuthors == 6

(***************************************************************************)
(* str primitives.                                                         *)
(***************************************************************************)
SP == " "

RECURSIVE LStrip(_)
LStrip(s) == IF s # <<>> /\ Head(s) = SP THEN LStrip(Tail(s)) ELSE s

RECURSIVE RStrip(_)
RStrip(s) ==
    IF s # <<>> /\ s[Len(s)] = SP THEN RStrip(SubSeq(s, 1, Len(s) - 1)) ELSE s

\* str.strip()
Strip(s) == RStrip(LStrip(s))

IsPrefix(p, s) == Len(p) <= Len(s) /\ SubSeq(s, 1, Len(p)) = p

\* str.split(sep): the pieces between the leftmost non-overlapping
\* occurrences of sep; always at least one piece.
RECURSIVE SplitFrom(_, _, _)
SplitFrom(s, sep, cur) ==
    IF s = <<>> THEN <<cur>>
    ELSE IF IsPrefix(sep, s)
         THEN <<cur>> \o SplitFrom(SubSeq(s, Len(sep) + 1, Len(s)), sep, <<>>)
         ELSE SplitFrom(Tail(s), sep, Append(cur, Head(s)))

Split(s, sep) == SplitFrom(s, sep, <<>>)

\* sep.join(parts)
RECURSIVE Join(_, _)
Join(parts, sep) ==
    IF parts = <<>> THEN <<>>
    ELSE IF Len(parts) = 1 THEN parts[1]
    ELSE parts[1] \o sep \o Join(Tail(parts), sep)

\* [f(x) for x in seq]
StripAll(parts) == [i \in 1..Len(parts) |-> Strip(parts[i])]

(***************************************************************************)
(* format_authors                                                          *)
(***************************************************************************)
AND_SEP == <<" ", "and", " ">>

format_authors_no_etal(a) ==
    IF a = <<>> THEN <<>>
    ELSE LET authors == StripAll(Split(a, AND_SEP))
             n == Len(authors)
         IN  IF n = 1 THEN authors[1]
             ELSE IF n = 2 THEN authors[1] \o AND_SEP \o authors[2]
             ELSE Join(SubSeq(authors, 1, n - 1), <<",", " ">>)
                    \o <<",", " ", "and", " ">> \o authors[n]

format_authors(a) ==
    IF a = <<>> THEN <<>>
    ELSE LET authors == StripAll(Split(a, AND_SEP))
             n == Len(authors)
         IN  IF n = 1 THEN authors[1]
             ELSE IF n = 2 THEN authors[1] \o AND_SEP \o authors[2]
             ELSE IF n <= 4
                  THEN Join(SubSeq(authors, 1, n - 1), <<",", " ">>)
                         \o <<",", " ", "and", " ">> \o authors[n]
                  ELSE Join(SubSeq(authors, 1, 3), <<",", " ">>)
                         \o <<",", " ", "et al.">>

(***************************************************************************)
(* format_publication                                                      *)
(***************************************************************************)
\* dict.get(name, '') on a field mapping
Get(fields, name) == IF name \in DOMAIN fields THEN fields[name] ELSE <<>>

\* re.sub(r'\{([^}]+)\}', r'\1', s): a '{' whose next '}' lies at least one
\* character further is dropped together with that '}'; the scan resumes
\* after the '}'.
RECURSIVE FirstClose(_, _)
FirstClose(s, j) ==
    IF j > Len(s) THEN 0 ELSE IF s[j] = "}" THEN j ELSE FirstClose(s, j + 1)

RECURSIVE BraceSub(_)
BraceSub(s) ==
    IF s = <<>> THEN <<>>
    ELSE IF Head(s) = "{" /\ FirstClose(s, 2) >= 3
         THEN SubSeq(s, 2, FirstClose(s, 2) - 1)
                \o BraceSub(SubSeq(s, FirstClose(s, 2) + 1, Len(s)))
         ELSE <<Head(s)>> \o BraceSub(Tail(s))

DIGITS == <<"0", "1", "2", "3", "4", "5", "6", "7", "8", "9">>

\* str(n) for an int n
RECURSIVE NatToStr(_)
NatToStr(n) ==
    IF n < 10 THEN <<DIGITS[n + 1]>>
    ELSE Append(NatToStr(n \div 10), DIGITS[(n % 10) + 1])

IntToStr(n) == IF n < 0 THEN <<"-">> \o NatToStr(0 - n) ELSE NatToStr(n)

\* the venue part of the citation, a list of zero or one segment
venue_parts_no_collection(entry_type, fields) ==
    IF entry_type = <<"inproceedings">>
    THEN LET booktitle == Strip(Get(fields, "booktitle"))
         IN  IF booktitle # <<>> THEN << <<"In", " ">> \o booktitle >> ELSE <<>>
    ELSE IF entry_type = <<"article">>
    THEN LET journal == Strip(Get(fields, "journal"))
         IN  IF journal # <<>>
             THEN << <<"In", " ", "*">> \o journal \o <<"*">> >> ELSE <<>>
    ELSE <<>>

venue_parts(entry_type, fields) ==
    IF entry_type = <<"inproceedings">>
    THEN LET booktitle == Strip(Get(fields, "booktitle"))
         IN  IF booktitle # <<>> THEN << <<"In", " ">> \o booktitle >> ELSE <<>>
    ELSE IF entry_type = <<"article">>
    THEN LET journal == Strip(Get(fields, "journal"))
         IN  IF journal # <<>>
             THEN << <<"In", " ", "*">> \o journal \o <<"*">> >> ELSE <<>>
    ELSE IF entry_type = <<"inbook">> \/ entry_type = <<"incollection">>
    THEN LET booktitle == Strip(Get(fields, "booktitle"))
         IN  IF booktitle # <<>> THEN << <<"In", " ">> \o booktitle >> ELSE <<>>
    ELSE <<>>

format_publication(entry, category) ==
    LET fields == entry.fields
        entry_type == entry.type
        title == BraceSub(Strip(Get(fields, "title")))
        authors == format_authors(Get(fields, "author"))
        year == entry.year
        parts_a == IF authors # <<>>
                   THEN << <<"**">> \o authors \o <<"**">> >> ELSE <<>>
        parts_t == IF title # <<>>
                   THEN Append(parts_a, <<"*">> \o title \o <<"*">>)
                   ELSE parts_a
        parts_v == parts_t \o venue_parts(entry_type, fields)
        citation_parts == Append(parts_v, <<"(">> \o IntToStr(year) \o <<")">>)
        links_u == IF "url" \in DOMAIN fields
                   THEN << <<"[PDF](">> \o Strip(fields["url"]) \o <<")">> >>
                   ELSE <<>>
        links == IF "doi" \in DOMAIN fields
                 THEN Append(links_u, <<"[DOI](", "https://doi.org/">>
                                        \o Strip(fields["doi"]) \o <<")">>)
                 ELSE links_u
        joined == Join(citation_parts, <<".", " ">>)
        cit == IF links # <<>>
               THEN joined \o <<" ">> \o Join(links, <<" ", "|", " ">>)
               ELSE joined
    IN  <<"-", " ">> \o cit

(***************************************************************************)
(* parse_bib_entries_sty                                                   *)
(***************************************************************************)
\* position of category cat in the dict, 0 when it is not a key
CatPos(cats, cat) ==
    IF \E i \in 1..Len(cats) : cats[i].cat = cat
    THEN CHOOSE i \in 1..Len(cats) : cats[i].cat = cat
    ELSE 0

\* [e.strip() for e in entries_str.split(',') if e.strip()]
sty_entries(entries_str) ==
    LET stripped == StripAll(Split(entries_str, <<",">>))
        NonEmpty(e) == e # <<>>
    IN  SelectSeq(stripped, NonEmpty)

SeqToSet(s) == {s[i] : i \in 1..Len(s)}

\* categories[category].update(entries) on a defaultdict(set)
add_to_category(cats, category, ents) ==
    LET i == CatPos(cats, category)
    IN  IF i = 0
        THEN Append(cats, [cat |-> category, keys |-> SeqToSet(ents)])
        ELSE [cats EXCEPT ![i].keys = @ \cup SeqToSet(ents)]

(***************************************************************************)
(* parse_bibtex                                                            *)
(***************************************************************************)
RECENT_YEAR == 2022

IsDigit(c) == \E d \in 1..10 : DIGITS[d] = c
DigitVal(c) == (CHOOSE d \in 1..10 : DIGITS[d] = c) - 1

\* int(s): blanks around the literal are ignored, one sign may lead, and
\* single underscores may separate digits; anything else is a ValueError.
Unsigned(s) ==
    LET t == Strip(s)
    IN  IF t # <<>> /\ Head(t) \in {"+", "-"} THEN Tail(t) ELSE t

IsIntLiteral(s) ==
    LET u == Unsigned(s)
    IN  /\ u # <<>>
        /\ \A i \in 1..Len(u) : IsDigit(u[i]) \/ u[i] = "_"
        /\ IsDigit(u[1]) /\ IsDigit(u[Len(u)])
        /\ \A i \in 1..(Len(u) - 1) : ~(u[i] = "_" /\ u[i + 1] = "_")

RECURSIVE DigitsVal(_, _)
DigitsVal(u, acc) ==
    IF u = <<>> THEN acc
    ELSE IF Head(u) = "_" THEN DigitsVal(Tail(u), acc)
    ELSE DigitsVal(Tail(u), 10 * acc + DigitVal(Head(u)))

IntOf(s) ==
    LET t == Strip(s)
        v == DigitsVal(Unsigned(s), 0)
    IN  IF t # <<>> /\ Head(t) = "-" THEN 0 - v ELSE v

\* try: int(year) if year else 0; except ValueError: 0
year_int_of(year) ==
    IF year = <<>> THEN 0
    ELSE IF IsIntLiteral(year) THEN IntOf(year) ELSE 0

\* str.lower() on the atoms the inputs are built from
LowerAtom(a) ==
    CASE a = "Article" -> "article"
      [] a = "InProceedings" -> "inproceedings"
      [] a = "Title" -> "title"
      [] a = "Year" -> "year"
      [] OTHER -> a

Lower(s) == [i \in 1..Len(s) |-> LowerAtom(s[i])]

\* entries[entry_key] = entry on a dict: a present key keeps its position
PosOfKey(ents, key) ==
    IF \E i \in 1..Len(ents) : ents[i].key = key
    THEN CHOOSE i \in 1..Len(ents) : ents[i].key = key
    ELSE 0

dict_put_first(ents, entry) ==
    IF PosOfKey(ents, entry.key) = 0 THEN Append(ents, entry) ELSE ents

dict_put(ents, entry) ==
    LET i == PosOfKey(ents, entry.key)
    IN  IF i = 0 THEN Append(ents, entry) ELSE [ents EXCEPT ![i] = entry]

\* the fallback branch: the field mapping built from the (name, value)
\* matches of one record, fields[field_name] = field_value.strip() for each
\* match in turn, a later match overwriting an earlier one
RECURSIVE fallback_fields(_)
fallback_fields(matches) ==
    IF matches = <<>> THEN [n \in {} |-> <<>>]
    ELSE LET k == Len(matches)
             fields == fallback_fields(SubSeq(matches, 1, k - 1))
             field_name == LowerAtom(matches[k][1])
             field_value == Strip(BraceSub(matches[k][2]))
         IN  [n \in DOMAIN fields \cup {field_name} |->
                 IF n = field_name THEN field_value ELSE fields[n]]

\* the Entry a record of the bibtexparser branch stands for
library_entry(entry) ==
    [type |-> Lower(Get(entry, "ENTRYTYPE")),
     key |-> Get(entry, "ID"),
     year |-> year_int_of(Strip(Get(entry, "year"))),
     fields |-> entry]

\* the Entry a match of the fallback branch stands for
fallback_entry(match) ==
    LET fields == fallback_fields(match.fields)
    IN  [type |-> Lower(match.type),
         key |-> Strip(match.key),
         year |-> year_int_of(Strip(Get(fields, "year"))),
         fields |-> fields]

\* if year_int >= 2022: entries[entry_key] = {...}
keep_always(ents, entry) == dict_put(ents, entry)

keep_recent(ents, entry) ==
    IF entry.year >= RECENT_YEAR THEN dict_put(ents, entry) ELSE ents

(***************************************************************************)
(* generate_publications_page                                              *)
(***************************************************************************)
CATEGORY_NAMES ==
    [c \in {"thesis", "books", "chapters", "journals", "magazines",
            "conferences", "workshops", "posters", "demos", "techreports",
            "patents"} |->
        CASE c = "thesis" -> "Theses"
          [] c = "books" -> "Books"
          [] c = "chapters" -> "Book Chapters"
          [] c = "journals" -> "Journal Articles"
          [] c = "magazines" -> "Magazine Articles"
          [] c = "conferences" -> "Conference Papers"
          [] c = "workshops" -> "Workshop Papers"
          [] c = "posters" -> "Poster Papers"
          [] c = "demos" -> "Demo Papers"
          [] c = "techreports" -> "Technical Reports"
          [] c = "patents" -> "Patents"]

category_order_short ==
    <<"books", "chapters", "conferences", "workshops",
      "techreports", "posters", "demos", "thesis", "magazines", "patents">>

category_order ==
    <<"books", "chapters", "journals", "conferences", "workshops",
      "techreports", "posters", "demos", "thesis", "magazines", "patents">>

\* str.title() on the category atoms the inputs are built from
TitleCase(cat) == CASE cat = "misc" -> "Misc" [] OTHER -> cat

\* the Markdown code fence, three backquote characters (a character no TLA+
\* string can hold)
FENCE == "<3 backquotes>"

HEADER_LINES ==
    << <<"---">>,
    <<"title: \"Publications\"">>,
    <<"---">>,
    <<>>,
    <<FENCE, "{=html}">>,
    <<"<div style='margin: 2rem 0;'>">>,
    <<"<input type='text' id='pubSearch' placeholder='Search publications...' ">>,
    <<"       style='width: 100%; padding: 0.75rem; font-size: 1rem; border: 2px solid #ddd; border-radius: 8px;' />">>,
    <<"</div>">>,
    <<FENCE>>,
    <<>>,
    <<FENCE, "{=html}">>,
    <<"<div id='publications-container'>">>,
    <<FENCE>>,
    <<>> >>

FOOTER_LINES ==
    << <<FENCE, "{=html}">>,
    <<"</div>">>,
    <<FENCE>>,
    <<>>,
    <<FENCE, "{=html}">>,
    <<"<script>">>,
    <<"document.addEventListener('DOMContentLoaded', function() {">>,
    <<"  const searchInput = document.getElementById('pubSearch');">>,
    <<"  const categories = document.querySelectorAll('.pub-category');">>,
    <<>>,
    <<"  searchInput.addEventListener('input', function(e) {">>,
    <<"    const searchTerm = e.target.value.toLowerCase();">>,
    <<>>,
    <<"    categories.forEach(category => {">>,
    <<"      const items = category.querySelectorAll('li');">>,
    <<"      let hasVisible = false;">>,
    <<>>,
    <<"      items.forEach(item => {">>,
    <<"        const text = item.textContent.toLowerCase();">>,
    <<"        if (text.includes(searchTerm)) {">>,
    <<"          item.style.display = '';">>,
    <<"          hasVisible = true;">>,
    <<"        } else {">>,
    <<"          item.style.display = 'none';">>,
    <<"        }">>,
    <<"      });">>,
    <<>>,
    <<"      // Hide category if no visible items">>,
    <<"      const categoryHeading = category.previousElementSibling;">>,
    <<"      if (categoryHeading && categoryHeading.tagName === 'H3') {">>,
    <<"        if (hasVisible || searchTerm === '') {">>,
    <<"          categoryHeading.style.display = '';">>,
    <<"          category.style.display = '';">>,
    <<"        } else {">>,
    <<"          categoryHeading.style.display = 'none';">>,
    <<"          category.style.display = 'none';">>,
    <<"        }">>,
    <<"      }">>,
    <<"    });">>,
    <<"  });">>,
    <<"});">>,
    <<"</script>">>,
    <<FENCE>> >>

\* the categories an entry is appended to by the scan of categories.items():
\* the scan stops at the first category whose key set holds the key
assigned_every_match(cats, key) ==
    LET Holds(c) == key \in c.keys
        hits == SelectSeq(cats, Holds)
    IN  [i \in 1..Len(hits) |-> hits[i].cat]

assigned_last_match(cats, key) ==
    LET Holds(c) == key \in c.keys
        hits == SelectSeq(cats, Holds)
    IN  IF hits = <<>> THEN <<>> ELSE <<hits[Len(hits)].cat>>

assigned(cats, key) ==
    LET Holds(c) == key \in c.keys
        hits == SelectSeq(cats, Holds)
    IN  IF hits = <<>> THEN <<>> ELSE <<hits[1].cat>>

\* categorized[cat], before it is sorted
categorized(ents, cats, cat) ==
    LET InCat(e) == cat \in SeqToSet(assigned(cats, e.key))
    IN  SelectSeq(ents, InCat)

\* the uncategorized list, before it is sorted
uncategorized_all(ents, cats) == ents

uncategorized(ents, cats) ==
    LET NotFound(e) == assigned(cats, e.key) = <<>>
    IN  SelectSeq(ents, NotFound)

\* list.sort(key=year, reverse=True) and sorted(...): stable, year descending
RECURSIVE sort_ascending(_)
sort_ascending(list) ==
    IF list = <<>> THEN <<>>
    ELSE LET n == Len(list)
             e == list[n]
             done == sort_ascending(SubSeq(list, 1, n - 1))
             k == Cardinality({i \in 1..Len(done) : done[i].year <= e.year})
         IN  SubSeq(done, 1, k) \o <<e>> \o SubSeq(done, k + 1, Len(done))

RECURSIVE sort_by_year(_)
sort_by_year(list) ==
    IF list = <<>> THEN <<>>
    ELSE LET n == Len(list)
             e == list[n]
             done == sort_by_year(SubSeq(list, 1, n - 1))
             k == Cardinality({i \in 1..Len(done) : done[i].year >= e.year})
         IN  SubSeq(done, 1, k) \o <<e>> \o SubSeq(done, k + 1, Len(done))

\* a line of the document and the key of the entry it formats, if any
NoKey == <<"<no entry>">>
Static(text) == [text |-> text, key |-> NoKey]
StaticAll(texts) == [i \in 1..Len(texts) |-> Static(texts[i])]

RECURSIVE entry_lines(_, _)
entry_lines(list, cat) ==
    IF list = <<>> THEN <<>>
    ELSE << [text |-> format_publication(Head(list), cat), key |-> Head(list).key],
            Static(<<>>) >> \o entry_lines(Tail(list), cat)

\* one section: heading, tagged wrapper, one line per entry, closing wrapper
section_lines(heading, tag, list) ==
    StaticAll(<< <<"### ", heading>>,
                 <<>>,
                 <<FENCE, "{=html}">>,
                 <<"<div class='pub-category' data-category='", tag, "'>">>,
                 <<FENCE>>,
                 <<>> >>)
      \o entry_lines(list, tag)
      \o StaticAll(<< <<FENCE, "{=html}">>, <<"</div>">>, <<FENCE>>, <<>> >>)

\* the loop over category_order, from position i on
RECURSIVE category_sections(_, _, _)
category_sections(ents, cats, i) ==
    IF i > Len(category_order) THEN <<>>
    ELSE LET cat == category_order[i]
             list == sort_by_year(categorized(ents, cats, cat))
             cat_name == IF cat \in DOMAIN CATEGORY_NAMES
                         THEN CATEGORY_NAMES[cat] ELSE TitleCase(cat)
         IN  (IF list # <<>> THEN section_lines(cat_name, cat, list) ELSE <<>>)
               \o category_sections(ents, cats, i + 1)

other_section(ents, cats) ==
    LET list == uncategorized(ents, cats)
    IN  IF list # <<>>
        THEN section_lines("Other Publications", "other", sort_by_year(list))
        ELSE <<>>

\* the list lines, each line with the entry it came from
page_items_other_first(ents, cats) ==
    StaticAll(HEADER_LINES)
      \o other_section(ents, cats)
      \o category_sections(ents, cats, 1)
      \o StaticAll(FOOTER_LINES)

page_items(ents, cats) ==
    StaticAll(HEADER_LINES)
      \o category_sections(ents, cats, 1)
      \o other_section(ents, cats)
      \o StaticAll(FOOTER_LINES)

RECURSIVE Texts(_)
Texts(items) == IF items = <<>> THEN <<>> ELSE <<Head(items).text>> \o Texts(Tail(items))

RECURSIVE Keys(_)
Keys(items) == IF items = <<>> THEN <<>> ELSE <<Head(items).key>> \o Keys(Tail(items))

(***************************************************************************)
(* Inputs: the directives of bib-entries.sty and the records of            *)
(* citations.bib.                                                          *)
(***************************************************************************)
Absent == <<"<absent>">>

K1 == <<"k1">>
K2 == <<"k2">>

StyCategories == {"books", "journals", "misc"}

\* the text between the braces of the second argument of \addtocategory
StyEntryStrs ==
    { <<"k1">>,
      <<" ", "k2", ",", " ">>,
      <<"k1", ",", " ", "k2">> }

LibraryYears ==
    { Absent,
      <<"2", "0", "2", "1">>,
      <<"2", "0", "2", "2">>,
      <<"2", "0", "2", "3">>,
      <<"n", ".", "d", ".">> }

FallbackYears ==
    { Absent,
      <<"2", "0", "2", "1">>,
      <<"2", "0", "2", "2">>,
      <<"{", " ", "2", "0", "2", "3", "}">>,
      <<"n", ".", "d", ".">> }

RecordTypes == { <<"Article">>, <<"inproceedings">> }

\* an entry of bib_database.entries
LibraryRecord(id, type, year) ==
    LET base == [n \in {"ID", "ENTRYTYPE", "title", "author", "journal", "booktitle"} |->
                    CASE n = "ID" -> id
                      [] n = "ENTRYTYPE" -> type
                      [] n = "title" -> <<"{", "Deep", "}", " ", "Nets">>
                      [] n = "author" -> <<"Ann", " ", "and", " ", "Bob">>
                      [] n = "journal" -> <<"Jrnl">>
                      [] n = "booktitle" -> <<"Proc">>]
    IN  IF year = Absent THEN base ELSE base @@ ("year" :> year)

\* a match of entry_pattern with the matches of the field patterns
FallbackRecord(key, type, year) ==
    [type |-> type,
     key |-> key,
     fields |->
        (IF year = Absent THEN <<>> ELSE << <<"Year", year>> >>)
          \o << <<"Title", <<"{", "Deep", "}", " ", "Nets">> >>,
                <<"author", <<"Ann", " ", "and", " ", "Bob">> >>,
                <<"journal", <<"Jrnl">> >>,
                <<"booktitle", <<"Proc">> >> >>]

\* the (type, year) pairs of the records: both types with every year that is
\* kept, one type with every year that is dropped
Shapes(years) ==
    { sh \in RecordTypes \X years :
        sh[1] = <<"Article">> \/ year_int_of(Strip(BraceSub(sh[2]))) >= RECENT_YEAR }

LibraryRecords ==
    { LibraryRecord(k, sh[1], sh[2]) : k \in {K1, K2}, sh \in Shapes(LibraryYears) }

FallbackRecords ==
    { FallbackRecord(k, sh[1], sh[2]) :
        k \in {K1, <<" ", "k2">>}, sh \in Shapes(FallbackYears) }

(***************************************************************************)
(* main: parse_bib_entries_sty, then parse_bibtex, then                    *)
(* generate_publications_page.                                             *)
(***************************************************************************)
Init ==
    /\ pc = "sty"
    /\ HAS_BIBTEXPARSER \in BOOLEAN
    /\ categories = <<>>
    /\ bib = <<>>
    /\ entries = <<>>
    /\ lines = <<>>
    /\ origin = <<>>
    /\ authors_in = <<>> /\ authors_str = <<>> /\ authors_out = <<>>
    /\ pub = <<>> /\ citation = <<>>

\* parse_bib_entries_sty: the file does not exist
StyMissing ==
    /\ pc = "sty"
    /\ categories = <<>>
    /\ pc' = "bib"
    /\ UNCHANGED <<HAS_BIBTEXPARSER, categories, bib, entries, lines, origin>>
    /\ UNCHANGED <<authorVars, pubVars>>

\* parse_bib_entries_sty: one \addtocategory directive
AddToCategory ==
    /\ pc = "sty"
    /\ \E category \in StyCategories, entries_str \in StyEntryStrs :
          /\ CatPos(categories, category) # 0 \/ Len(categories) < MaxCategories
          /\ categories' = add_to_category(categories, category, sty_entries(entries_str))
    /\ UNCHANGED <<pc, HAS_BIBTEXPARSER, bib, entries, lines, origin>>
    /\ UNCHANGED <<authorVars, pubVars>>

\* parse_bib_entries_sty: no further directive
StyReturn ==
    /\ pc = "sty"
    /\ pc' = "bib"
    /\ UNCHANGED <<HAS_BIBTEXPARSER, categories, bib, entries, lines, origin>>
    /\ UNCHANGED <<authorVars, pubVars>>

\* parse_bibtex: the file does not exist
BibMissing ==
    /\ pc = "bib"
    /\ bib = <<>>
    /\ pc' = "gen"
    /\ UNCHANGED <<HAS_BIBTEXPARSER, categories, bib, entries, lines, origin>>
    /\ UNCHANGED <<authorVars, pubVars>>

\* parse_bibtex, bibtexparser branch: one entry of bib_database.entries
ParseLibraryEntry ==
    /\ pc = "bib"
    /\ HAS_BIBTEXPARSER
    /\ Len(bib) < MaxRecords
    /\ \E entry \in LibraryRecords :
          /\ bib' = Append(bib, entry)
          /\ entries' = keep_recent(entries, library_entry(entry))
    /\ UNCHANGED <<pc, HAS_BIBTEXPARSER, categories, lines, origin>>
    /\ UNCHANGED <<authorVars, pubVars>>

\* parse_bibtex, fallback branch: one match of entry_pattern
ParseFallbackEntry ==
    /\ pc = "bib"
    /\ ~HAS_BIBTEXPARSER
    /\ Len(bib) < MaxRecords
    /\ \E match \in FallbackRecords :
          /\ bib' = Append(bib, match)
          /\ entries' = keep_recent(entries, fallback_entry(match))
    /\ UNCHANGED <<pc, HAS_BIBTEXPARSER, categories, lines, origin>>
    /\ UNCHANGED <<authorVars, pubVars>>

\* parse_bibtex: no further record; the text read is dropped with the call
BibReturn ==
    /\ pc = "bib"
    /\ pc' = "gen"
    /\ bib' = <<>>
    /\ UNCHANGED <<HAS_BIBTEXPARSER, categories, entries, lines, origin>>
    /\ UNCHANGED <<authorVars, pubVars>>

GeneratePage ==
    /\ pc = "gen"
    /\ lines' = Texts(page_items(entries, categories))
    /\ origin' = Keys(page_items(entries, categories))
    /\ pc' = "done"
    /\ UNCHANGED <<HAS_BIBTEXPARSER, categories, bib, entries>>
    /\ UNCHANGED <<authorVars, pubVars>>

Next ==
    \/ StyMissing
    \/ AddToCategory
    \/ StyReturn
    \/ BibMissing
    \/ ParseLibraryEntry
    \/ ParseFallbackEntry
    \/ BibReturn
    \/ GeneratePage

Spec == Init /\ [][Next]_vars

(***************************************************************************)
(* format_authors on its own: the author field is built from a list of     *)
(* names joined by ' and '.                                                *)
(***************************************************************************)
RawNames ==
    { <<"Ann">>, <<" ", "Bob">>, <<"C.", " ", "Dee", " ">>, <<>> }

RECURSIVE SeqsUpTo(_, _)
SeqsUpTo(S, n) ==
    IF n = 0 THEN {<<>>}
    ELSE LET shorter == SeqsUpTo(S, n - 1)
         IN  shorter \cup {Append(q, x) : q \in {r \in shorter : Len(r) = n - 1}, x \in S}

InitAuthors ==
    /\ pc = "authors"
    /\ authors_in \in SeqsUpTo(RawNames, MaxAuthors)
    /\ authors_str = Join(authors_in, AND_SEP)
    /\ authors_out = <<>>
    /\ HAS_BIBTEXPARSER = FALSE
    /\ categories = <<>> /\ bib = <<>> /\ entries = <<>>
    /\ lines = <<>> /\ origin = <<>>
    /\ pub = <<>> /\ citation = <<>>

FormatAuthors ==
    /\ pc = "authors"
    /\ authors_out' = format_authors(authors_str)
    /\ pc' = "authors_done"
    /\ UNCHANGED <<authors_in, authors_str>>
    /\ UNCHANGED <<pageVars, pubVars>>

NextAuthors == FormatAuthors

SpecAuthors == InitAuthors /\ [][NextAuthors]_vars

(***************************************************************************)
(* format_publication on its own: one Entry of the mapping parse_bibtex    *)
(* returns.                                                                *)
(***************************************************************************)
PubTypes ==
    { <<"inproceedings">>, <<"article">>, <<"inbook">>, <<"incollection">>, <<"misc">> }

PubYears == {2022, 2030}

AuthorFields == { Absent, <<>>, <<"Ann">>, <<"Ann", " ", "and", " ", "Bob">> }
TitleFields == { Absent, <<>>, <<"Nets">>, <<"A", " ", "{", "Study", "}">> }
BooktitleFields == { Absent, <<>>, <<"Proc">> }
JournalFields == { Absent, <<>>, <<"Jrnl">> }
UrlFields == { Absent, <<>>, <<"http://u">> }
DoiFields == { Absent, <<"10.1/x">> }

\* the field mapping with the fields that are present
PubFields(author, title, booktitle, journal, url, doi) ==
    LET all == [n \in {"author", "title", "booktitle", "journal", "url", "doi"} |->
                   CASE n = "author" -> author
                     [] n = "title" -> title
                     [] n = "booktitle" -> booktitle
                     [] n = "journal" -> journal
                     [] n = "url" -> url
                     [] n = "doi" -> doi]
    IN  [n \in {m \in DOMAIN all : all[m] # Absent} |-> all[n]]

InitPub ==
    /\ pc = "pub"
    /\ \E type \in PubTypes, year \in PubYears,
          author \in AuthorFields, title \in TitleFields,
          booktitle \in BooktitleFields, journal \in JournalFields,
          url \in UrlFields, doi \in DoiFields :
          pub = [type |-> type, key |-> K1, year |-> year,
                 fields |-> PubFields(author, title, booktitle, journal, url, doi)]
    /\ citation = <<>>
    /\ HAS_BIBTEXPARSER = FALSE
    /\ categories = <<>> /\ bib = <<>> /\ entries = <<>>
    /\ lines = <<>> /\ origin = <<>>
    /\ authors_in = <<>> /\ authors_str = <<>> /\ authors_out = <<>>

FormatPublication ==
    /\ pc = "pub"
    /\ citation' = format_publication(pub, "other")
    /\ pc' = "pub_done"
    /\ UNCHANGED pub
    /\ UNCHANGED <<pageVars, authorVars>>

NextPub == FormatPublication

SpecPub == InitPub /\ [][NextPub]_vars

(***************************************************************************)
(* Reading the document: sections, tags and the entries of its lines.      *)
(***************************************************************************)
FixedOrder ==
    <<"books", "chapters", "journals", "conferences", "workshops",
      "techreports", "posters", "demos", "thesis", "magazines", "patents">>

FixedNames == {FixedOrder[i] : i \in 1..Len(FixedOrder)}

DisplayName(c) ==
    CASE c = "books" -> "Books"
      [] c = "chapters" -> "Book Chapters"
      [] c = "journals" -> "Journal Articles"
      [] c = "conferences" -> "Conference Papers"
      [] c = "workshops" -> "Workshop Papers"
      [] c = "techreports" -> "Technical Reports"
      [] c = "posters" -> "Poster Papers"
      [] c = "demos" -> "Demo Papers"
      [] c = "thesis" -> "Theses"
      [] c = "magazines" -> "Magazine Articles"
      [] c = "patents" -> "Patents"
      [] OTHER -> "Other Publications"

IsHeading(line) == Len(line) = 2 /\ line[1] = "### "
IsWrapper(line) ==
    Len(line) = 3 /\ line[1] = "<div class='pub-category' data-category='"
IsClose(line) == line = <<"</div>">>

PubLines == {i \in 1..Len(lines) : origin[i] # NoKey}
LinesOf(key) == {i \in PubLines : origin[i] = key}

\* the last line before line i that satisfies Test, 0 when there is none
LastBefore(i, Test(_)) ==
    LET before == {j \in 1..(i - 1) : Test(lines[j])}
    IN  IF before = {} THEN 0 ELSE CHOOSE j \in before : \A k \in before : k <= j

\* line i lies in the section tagged tag under the heading heading: the
\* heading, then the wrapper carrying the tag, then line i, with no other
\* heading or wrapper and no closing of the wrapper in between
InSection(i, tag, heading) ==
    LET w == LastBefore(i, IsWrapper)
        h == LastBefore(i, IsHeading)
        c == LastBefore(i, IsClose)
    IN  /\ w # 0 /\ h # 0 /\ h < w /\ c < h
        /\ lines[w][2] = tag
        /\ lines[h][2] = heading

TagOf(i) ==
    LET w == LastBefore(i, IsWrapper) IN IF w = 0 THEN "" ELSE lines[w][2]

Headings ==
    LET hs == SelectSeq(lines, IsHeading) IN [i \in 1..Len(hs) |-> hs[i][2]]

EntryKeys == {entries[i].key : i \in 1..Len(entries)}
EntryWithKey(key) == entries[CHOOSE i \in 1..Len(entries) : entries[i].key = key]

\* the categories of the Category Index whose key set holds key
CatsHolding(key) == {i \in 1..Len(categories) : key \in categories[i].keys}

\* the first category, in the order the categories were added, that holds key
FirstAdded(key) ==
    LET idx == CatsHolding(key)
    IN  IF idx = {} THEN "" ELSE categories[CHOOSE i \in idx : \A j \in idx : i <= j].cat

\* the first category, in the fixed order, that holds key
FirstFixed(key) ==
    LET held == {categories[i].cat : i \in CatsHolding(key)}
        pos == {p \in 1..Len(FixedOrder) : FixedOrder[p] \in held}
    IN  IF pos = {} THEN "" ELSE FixedOrder[CHOOSE p \in pos : \A q \in pos : p <= q]

\* the year and key a record of the bibliography stands for
RawYear(r) ==
    IF HAS_BIBTEXPARSER
    THEN IF "year" \in DOMAIN r THEN r["year"] ELSE Absent
    ELSE IF \E i \in 1..Len(r.fields) : r.fields[i][1] = "Year"
         THEN r.fields[CHOOSE i \in 1..Len(r.fields) : r.fields[i][1] = "Year"][2]
         ELSE Absent

YearValue(r) ==
    LET y == RawYear(r)
    IN  CASE y = <<"2", "0", "2", "1">> -> 2021
          [] y = <<"2", "0", "2", "2">> -> 2022
          [] y = <<"2", "0", "2", "3">> -> 2023
          [] y = <<"{", " ", "2", "0", "2", "3", "}">> -> 2023
          [] OTHER -> 0

KeyValue(r) ==
    LET k == IF HAS_BIBTEXPARSER THEN r["ID"] ELSE r.key
    IN  IF k = <<" ", "k2">> THEN K2 ELSE k

EntryOfRecord(r) ==
    IF HAS_BIBTEXPARSER THEN library_entry(r) ELSE fallback_entry(r)

Occurrences(key) == {i \in 1..Len(bib) : KeyValue(bib[i]) = key}
Qualifying(key) == {i \in Occurrences(key) : YearValue(bib[i]) >= 2022}
Latest(S) == CHOOSE i \in S : \A j \in S : j <= i

(***************************************************************************)
(* Claims.                                                                 *)
(***************************************************************************)

\* C1: a record whose year (0 when the year field is absent or not a number)
\* is below 2022 is not in the mapping parse_bibtex builds, and no line of
\* the document comes from it: every entry of the mapping and every entry a
\* line is rendered from has year >= 2022.
Thm_C1 ==
    /\ \A i \in 1..Len(entries) : entries[i].year >= 2022
    /\ pc = "bib" =>
          /\ \A i \in 1..Len(bib) :
                YearValue(bib[i]) < 2022 =>
                   EntryOfRecord(bib[i]) \notin {entries[j] : j \in 1..Len(entries)}
          /\ \A k \in {KeyValue(bib[i]) : i \in 1..Len(bib)} :
                Qualifying(k) = {} => k \notin EntryKeys
          /\ \A j \in 1..Len(entries) :
                \E i \in Qualifying(entries[j].key) : entries[j].year = YearValue(bib[i])
    /\ pc = "done" =>
          \A i \in PubLines :
             /\ origin[i] \in EntryKeys
             /\ EntryWithKey(origin[i]).year >= 2022
             /\ lines[i] = format_publication(EntryWithKey(origin[i]), TagOf(i))

Wit_C1 ==
    /\ pc = "bib"
    /\ Len(bib) = 2
    /\ YearValue(bib[1]) >= 2022
    /\ RawYear(bib[2]) = <<"n", ".", "d", ".">>
    /\ KeyValue(bib[2]) # KeyValue(bib[1])
    /\ Len(entries) = 1

\* C2 as claimed: an entry with year >= 2022 whose key is in the key set of
\* exactly one category, whatever its name, is rendered inside the section of
\* that category.
Cex_C2 ==
    pc = "done" =>
       \A e \in {entries[i] : i \in 1..Len(entries)} :
          Cardinality(CatsHolding(e.key)) = 1 =>
             \E i \in LinesOf(e.key) : TagOf(i) = FirstAdded(e.key)

\* C2 amended: an entry with year >= 2022 whose key is in the key set of
\* exactly one category, that category being one of the fixed display order,
\* is rendered as its formatted line inside the section of that category,
\* under the category's heading and its data-category wrapper; an entry whose
\* one category is outside the fixed display order is not rendered.
Thm_C2 ==
    pc = "done" =>
       \A e \in {entries[i] : i \in 1..Len(entries)} :
          Cardinality(CatsHolding(e.key)) = 1 =>
             IF FirstAdded(e.key) \in FixedNames
             THEN \E i \in LinesOf(e.key) :
                     /\ InSection(i, FirstAdded(e.key), DisplayName(FirstAdded(e.key)))
                     /\ lines[i] = format_publication(e, FirstAdded(e.key))
             ELSE LinesOf(e.key) = {}

Wit_C2 ==
    /\ pc = "done"
    /\ Len(entries) = 2
    /\ Len(categories) = 2
    /\ categories[1].cat = "misc" /\ categories[1].keys = {K1}
    /\ categories[2].cat = "journals" /\ categories[2].keys = {K2}
    /\ \E i \in LinesOf(K2) : InSection(i, "journals", "Journal Articles")
    /\ LinesOf(K1) = {}

\* C3 as claimed: an entry whose key is in the key sets of two or more
\* categories is assigned to the first of them in the fixed priority order,
\* whatever the order in which the categories were added.
Cex_C3 ==
    pc = "done" =>
       \A e \in {entries[i] : i \in 1..Len(entries)} :
          (Cardinality(CatsHolding(e.key)) >= 2 /\ FirstFixed(e.key) # "") =>
             \E i \in LinesOf(e.key) : TagOf(i) = FirstFixed(e.key)

\* C3 amended: an entry whose key is in the key sets of two or more
\* categories is assigned to the first of them in the order in which the
\* categories were added to the Category Index: it is rendered in that
\* category's section and in no other when the category is one of the fixed
\* display order, and not at all otherwise.
Thm_C3 ==
    pc = "done" =>
       \A e \in {entries[i] : i \in 1..Len(entries)} :
          Cardinality(CatsHolding(e.key)) >= 2 =>
             IF FirstAdded(e.key) \in FixedNames
             THEN /\ LinesOf(e.key) # {}
                  /\ \A i \in LinesOf(e.key) :
                        InSection(i, FirstAdded(e.key), DisplayName(FirstAdded(e.key)))
             ELSE LinesOf(e.key) = {}

Wit_C3 ==
    /\ pc = "done"
    /\ Len(categories) = 2
    /\ categories[1].cat = "journals" /\ categories[2].cat = "books"
    /\ \E e \in {entries[i] : i \in 1..Len(entries)} :
          /\ CatsHolding(e.key) = {1, 2}
          /\ \E i \in LinesOf(e.key) : InSection(i, "journals", "Journal Articles")

\* C4: in every section of the document, the category sections and the
\* 'Other Publications' section alike, the entries are listed by year
\* descending: of two lines of one section the earlier one has the greater
\* or equal year.
Thm_C4 ==
    pc = "done" =>
       \A i, j \in PubLines :
          (i < j /\ TagOf(i) = TagOf(j)) =>
             EntryWithKey(origin[i]).year >= EntryWithKey(origin[j]).year

Wit_C4 ==
    /\ pc = "done"
    /\ Len(entries) = 2
    /\ entries[1].year = 2022 /\ entries[2].year = 2023
    /\ \E i, j \in PubLines :
          /\ i < j /\ TagOf(i) = "other" /\ TagOf(j) = "other"
          /\ origin[i] = entries[2].key /\ origin[j] = entries[1].key

\* C5: every kept entry whose key is in no category's key set is rendered
\* under the 'Other Publications' heading; the heading is in the document
\* exactly when such an entry exists; with an empty Category Index every kept
\* entry is rendered under it.
Thm_C5 ==
    pc = "done" =>
       LET loose == {k \in EntryKeys : CatsHolding(k) = {}}
       IN  /\ \A k \in loose :
                \E i \in LinesOf(k) :
                   /\ InSection(i, "other", "Other Publications")
                   /\ lines[i] = format_publication(EntryWithKey(k), "other")
           /\ (\E h \in 1..Len(Headings) : Headings[h] = "Other Publications")
                 <=> loose # {}
           /\ \A i \in PubLines : TagOf(i) = "other" => origin[i] \in loose
           /\ categories = <<>> =>
                 \A k \in EntryKeys :
                    \E i \in LinesOf(k) : InSection(i, "other", "Other Publications")

Wit_C5 ==
    /\ pc = "done"
    /\ categories = <<>>
    /\ Len(entries) = 2
    /\ Headings = <<"Other Publications">>
    /\ Cardinality(PubLines) = 2

\* C6: format_authors splits the field on ' and ', trims each name and formats
\* by the number n of names: the empty field gives the empty string, one name
\* gives the name, two give 'A and B', three or four give the names but the
\* last joined by ', ' then ', and ' and the last, five or more give the first
\* three joined by ', ' then ', et al.', so no name after the third appears.
Thm_C6 ==
    pc = "authors_done" =>
       LET names == [i \in 1..Len(authors_in) |-> Strip(authors_in[i])]
           n == Len(names)
           commas(k) == Join(SubSeq(names, 1, k), <<",", " ">>)
       IN  IF authors_str = <<>> THEN authors_out = <<>>
           ELSE CASE n = 1 -> authors_out = names[1]
                  [] n = 2 -> authors_out = names[1] \o <<" ", "and", " ">> \o names[2]
                  [] n \in {3, 4} ->
                        authors_out = commas(n - 1) \o <<",", " ", "and", " ">> \o names[n]
                  [] OTHER ->
                        /\ authors_out = commas(3) \o <<",", " ", "et al.">>
                        /\ Len(authors_out) = Len(commas(3)) + 3

Wit_C6 ==
    /\ pc = "authors_done"
    /\ authors_in = << <<"Ann">>, <<" ", "Bob">>, <<"C.", " ", "Dee", " ">>, <<"Ann">>, <<" ", "Bob">> >>
    /\ authors_out = <<"Ann", ",", " ", "Bob", ",", " ", "C.", " ", "Dee", ",", " ", "et al.">>

\* C7 as claimed: the mapping holds exactly one Entry per key that occurs with
\* a qualifying record, and the Entry stored under a key is the one built
\* from the later (the last) occurrence of the key.
Cex_C7 ==
    pc = "bib" =>
       \A k \in {KeyValue(bib[i]) : i \in 1..Len(bib)} :
          Qualifying(k) # {} =>
             /\ Cardinality({j \in 1..Len(entries) : entries[j].key = k}) = 1
             /\ EntryWithKey(k) = EntryOfRecord(bib[Latest(Occurrences(k))])

\* C7 amended: the mapping holds exactly one Entry per key that occurs with a
\* qualifying record and none for any other key, and the Entry stored under a
\* key is the one built from the last qualifying occurrence of the key (a
\* later record of the key with year below 2022 leaves it as it is).
Thm_C7 ==
    pc = "bib" =>
       /\ \A k \in {KeyValue(bib[i]) : i \in 1..Len(bib)} :
             IF Qualifying(k) # {}
             THEN /\ Cardinality({j \in 1..Len(entries) : entries[j].key = k}) = 1
                  /\ EntryWithKey(k) = EntryOfRecord(bib[Latest(Qualifying(k))])
             ELSE k \notin EntryKeys
       /\ EntryKeys \subseteq {KeyValue(bib[i]) : i \in 1..Len(bib)}

Wit_C7 ==
    /\ pc = "bib"
    /\ Len(bib) = 2
    /\ KeyValue(bib[1]) = KeyValue(bib[2])
    /\ YearValue(bib[1]) = 2023 /\ YearValue(bib[2]) = 2022
    /\ EntryOfRecord(bib[1]).type # EntryOfRecord(bib[2]).type
    /\ entries = <<EntryOfRecord(bib[2])>>

\* C8: format_publication returns '- ' followed by the non-empty segments
\* bold authors, italic title, venue, '(' year ')' in this order joined by
\* '. '; the venue is 'In ' + booktitle for inproceedings, inbook and
\* incollection, 'In *' + journal + '*' for article, and absent for any other
\* type or a missing or empty field; a PDF link (url present) and a DOI link
\* (doi present), in this order joined by ' | ', follow after one space when
\* there is a link at all.
Thm_C8 ==
    pc = "pub_done" =>
       LET f == pub.fields
           Has(n) == n \in DOMAIN f /\ f[n] # <<>>
           authors == IF Has("author")
                      THEN <<"**">> \o format_authors(f["author"]) \o <<"**">> ELSE <<>>
           title == IF Has("title")
                    THEN <<"*">> \o BraceSub(f["title"]) \o <<"*">> ELSE <<>>
           venue == IF pub.type \in {<<"inproceedings">>, <<"inbook">>, <<"incollection">>}
                       /\ Has("booktitle")
                    THEN <<"In", " ">> \o f["booktitle"]
                    ELSE IF pub.type = <<"article">> /\ Has("journal")
                    THEN <<"In", " ", "*">> \o f["journal"] \o <<"*">>
                    ELSE <<>>
           year == IF pub.year = 2022 THEN <<"(", "2", "0", "2", "2", ")">>
                   ELSE <<"(", "2", "0", "3", "0", ")">>
           NonEmpty(x) == x # <<>>
           body == Join(SelectSeq(<<authors, title, venue, year>>, NonEmpty), <<".", " ">>)
           pdf == IF "url" \in DOMAIN f THEN <<"[PDF](">> \o f["url"] \o <<")">> ELSE <<>>
           doi == IF "doi" \in DOMAIN f
                  THEN <<"[DOI](", "https://doi.org/">> \o f["doi"] \o <<")">> ELSE <<>>
           links == SelectSeq(<<pdf, doi>>, NonEmpty)
       IN  citation = <<"-", " ">> \o body
                        \o (IF links # <<>>
                            THEN <<" ">> \o Join(links, <<" ", "|", " ">>) ELSE <<>>)

Wit_C8 ==
    /\ pc = "pub_done"
    /\ pub.type = <<"incollection">>
    /\ citation = <<"-", " ", "**", "Ann", " ", "and", " ", "Bob", "**", ".", " ",
                    "*", "A", " ", "Study", "*", ".", " ", "In", " ", "Proc", ".", " ",
                    "(", "2", "0", "3", "0", ")", " ",
                    "[PDF](", "http://u", ")", " ", "|", " ",
                    "[DOI](", "https://doi.org/", "10.1/x", ")">>

\* C9: the headings of the document are, in this order, the categories of the
\* fixed order whose bucket is not empty, then 'Other Publications' when the
\* uncategorized bucket is not empty: each at most once, none for an empty
\* bucket, none for a category outside the fixed order even when its bucket is
\* not empty.
Thm_C9 ==
    pc = "done" =>
       LET Filled(c) == \E k \in EntryKeys : FirstAdded(k) = c
           shown == SelectSeq(FixedOrder, Filled)
           expected == [i \in 1..Len(shown) |-> DisplayName(shown[i])]
                          \o (IF Filled("") THEN <<"Other Publications">> ELSE <<>>)
           wrappers == SelectSeq(lines, IsWrapper)
       IN  /\ Headings = expected
           /\ [i \in 1..Len(wrappers) |-> wrappers[i][2]]
                 = shown \o (IF Filled("") THEN <<"other">> ELSE <<>>)
           /\ \A i \in PubLines : InSection(i, TagOf(i), DisplayName(TagOf(i)))

Wit_C9 ==
    /\ pc = "done"
    /\ Len(categories) = 2
    /\ categories[1].cat = "journals" /\ categories[2].cat = "books"
    /\ Headings = <<"Books", "Journal Articles">>

\* C10: every kept entry is placed in exactly one bucket, so no entry's line
\* is rendered more than once, also when its key is in several categories;
\* an entry is rendered zero times exactly when its bucket is that of a
\* category outside the fixed display order, and once otherwise.
Thm_C10 ==
    pc = "done" =>
       /\ \A k \in EntryKeys :
             Cardinality(LinesOf(k)) =
                IF FirstAdded(k) \in FixedNames \cup {""} THEN 1 ELSE 0
       /\ \A i \in PubLines : origin[i] \in EntryKeys

Wit_C10 ==
    /\ pc = "done"
    /\ Len(entries) = 2
    /\ Len(categories) = 2
    /\ categories[1].cat = "books" /\ categories[2].cat = "misc"
    /\ CatsHolding(entries[1].key) = {1, 2}
    /\ CatsHolding(entries[2].key) = {2}
    /\ Cardinality(LinesOf(entries[1].key)) = 1
    /\ LinesOf(entries[2].key) = {}

====
